---- MODULE Spec2Model ----
(***************************************************************************)
(* The snake game of src/main.py as a state machine: the main loop's       *)
(* event handling (handle_keys, quit) and the per-frame tick               *)
(* (update_direction, move, eating, self-collision reset).                 *)
(* Cells and directions are pairs <<x, y>>; positions is the body, head    *)
(* first.  The grid of the source is 32 x 24 cells; the model runs the     *)
(* same code on every grid from 2 x 2 up to MaxGridWidth x MaxGridHeight   *)
(* (Spec, where the snake can fill the grid) and on the 4 x 4 grid as well *)
(* (SpecWide).  cap is the length up to which a run is followed.           *)
(* The variant of src/the_snake.py (pixel coordinates, grow() after an     *)
(* unconditional pop, apple re-rolled in a loop) is the t_ part of the     *)
(* state: SpecSnake runs it alone, SpecPair runs both on the same events.  *)
(***************************************************************************)
EXTENDS Integers, Sequences, FiniteSets, TLC

VARIABLES grid, cap, positions, length, direction, next_direction, apple,
          exited, placed_full, straight, ev,
          t_positions, t_direction, t_next_direction, t_last, t_apple,
          t_pc, t_ev

\* the state of main.py (with the grid and the cap, which both variants share)
mvars == <<positions, length, direction, next_direction, apple,
           exited, placed_full, straight, ev>>

\* the state of the_snake.py
tvars == <<t_positions, t_direction, t_next_direction, t_last, t_apple,
           t_pc, t_ev>>

vars == <<grid, cap, mvars, tvars>>

\* ---- bounds of the model ----
MaxGridWidth == 2
MaxGridHeight == 2
MaxLength == 5
MaxLengthWide == 3
MaxStraight == 3

\* ---- constants of the program ----
GRID_WIDTH == grid[1]
GRID_HEIGHT == grid[2]

\* the_snake.py: GRID_SIZE, and the screen that GRID_WIDTH and GRID_HEIGHT
\* are derived from
GRID_SIZE == 20
SCREEN_WIDTH == GRID_WIDTH * GRID_SIZE
SCREEN_HEIGHT == GRID_HEIGHT * GRID_SIZE

UP == <<0, -1>>
DOWN == <<0, 1>>
LEFT == <<-1, 0>>
RIGHT == <<1, 0>>
Directions == {UP, DOWN, LEFT, RIGHT}

\* Python's None for next_direction
None == <<>>

\* the keys a KEYDOWN event can carry: the four arrows and any other key
Keys == {"K_UP", "K_DOWN", "K_LEFT", "K_RIGHT", "K_OTHER"}

\* handle_keys: opposites dict
oppositesSelf(d) == d
opposites(d) ==
    CASE d = RIGHT -> LEFT
      [] d = LEFT -> RIGHT
      [] d = DOWN -> UP
      [] d = UP -> DOWN

\* handle_keys: mapping.get(event.key) (None for a key that is not an arrow)
mapping(k) ==
    CASE k = "K_UP" -> UP
      [] k = "K_DOWN" -> DOWN
      [] k = "K_LEFT" -> LEFT
      [] k = "K_RIGHT" -> RIGHT
      [] OTHER -> None

\* Python's % with a positive modulus: the remainder is never negative
PyModTruncated(a, n) == IF a < 0 THEN 0 - ((0 - a) % n) ELSE a % n
PyMod(a, n) == a % n

Range(s) == {s[i] : i \in 1..Len(s)}

\* all_cells of Apple.randomize_position
AllCells == {<<x, y>> : x \in 0..(GRID_WIDTH - 1), y \in 0..(GRID_HEIGHT - 1)}

\* Snake.__init__ / Snake.reset: start
Start == <<GRID_WIDTH \div 2, GRID_HEIGHT \div 2>>

\* free_cells of Apple.randomize_position
FreeCells(occupied) == AllCells \ occupied

\* Apple.randomize_position: the positions choice() can return, (0, 0) when
\* no cell is free
RandomizePositionFallsBackToStart(occupied) ==
    IF FreeCells(occupied) = {} THEN {Start} ELSE FreeCells(occupied)
RandomizePositionAnyCell(occupied) ==
    IF FreeCells(occupied) = {} THEN {<<0, 0>>} ELSE AllCells
RandomizePosition(occupied) ==
    IF FreeCells(occupied) = {} THEN {<<0, 0>>} ELSE FreeCells(occupied)

\* Snake.update_direction: the direction in force after it
UpdateDirection(dir, next) == IF next # None THEN next ELSE dir

\* Snake.move: new_head
NewHead(head, dir) ==
    <<PyMod(head[1] + dir[1], GRID_WIDTH), PyMod(head[2] + dir[2], GRID_HEIGHT)>>

\* Snake.move: insert the new head, pop the tail when longer than length
MoveAlwaysPops(pos, len, dir) ==
    LET ins == <<NewHead(pos[1], dir)>> \o pos
    IN  SubSeq(ins, 1, Len(ins) - 1)
MovePopsLate(pos, len, dir) ==
    LET ins == <<NewHead(pos[1], dir)>> \o pos
    IN  IF Len(ins) > len + 1 THEN SubSeq(ins, 1, Len(ins) - 1) ELSE ins
Move(pos, len, dir) ==
    LET ins == <<NewHead(pos[1], dir)>> \o pos
    IN  IF Len(ins) > len THEN SubSeq(ins, 1, Len(ins) - 1) ELSE ins

\* main: snake.get_head_position() in snake.positions[1:]
SelfCollisionIgnoresTail(pos) == \E i \in 2..(Len(pos) - 1) : pos[i] = pos[1]
SelfCollision(pos) == \E i \in 2..Len(pos) : pos[i] = pos[1]

\* main: snake.get_head_position() == apple.position
Eats(pos, food) == pos[1] = food

\* Snake.reset: the snake's fields after it
SnakeResetKeepsLength ==
    [positions |-> <<Start>>, length |-> length, direction |-> RIGHT,
     next_direction |-> None]
SnakeResetKeepsDirection ==
    [positions |-> <<Start>>, length |-> 1, direction |-> direction,
     next_direction |-> None]
SnakeReset ==
    [positions |-> <<Start>>, length |-> 1, direction |-> RIGHT,
     next_direction |-> None]

\* the record of the last operation of the main loop
InitEv == [kind |-> "init"]
KeyEv(k, before) == [kind |-> "key", key |-> k, before |-> before]
TickEv(prev, dir, moved, ate, grown, collided) ==
    [kind |-> "tick", prev |-> prev, dir |-> dir, moved |-> moved,
     ate |-> ate, grown |-> grown, collided |-> collided]

\* main: snake = Snake(); apple = Apple(occupied=set(snake.positions))
InitOn(g, c) ==
    /\ grid = g
    /\ cap = c
    /\ positions = <<Start>>
    /\ length = 1
    /\ direction = RIGHT
    /\ next_direction = None
    /\ apple \in RandomizePosition({Start})
    /\ exited = FALSE
    /\ placed_full = (FreeCells({Start}) = {})
    /\ straight = 0
    /\ ev = InitEv

Grids == {<<w, h>> : w \in 2..MaxGridWidth, h \in 2..MaxGridHeight}

\* the_snake.py not started
SnakeOff ==
    /\ t_positions = <<>>
    /\ t_direction = RIGHT
    /\ t_next_direction = None
    /\ t_last = None
    /\ t_apple = <<0, 0>>
    /\ t_pc = "off"
    /\ t_ev = InitEv

Init == (\E g \in Grids : InitOn(g, MaxLength)) /\ SnakeOff

\* the same program on the 4 x 4 grid as well, followed up to a shorter snake
InitWide == (\E g \in Grids \cup {<<4, 4>>} : InitOn(g, MaxLengthWide)) /\ SnakeOff

\* handle_keys(snake, event) for a KEYDOWN event with key k (not ESCAPE)
HandleKeysTurnsAtOnce(k) ==
    /\ ~exited
    /\ next_direction' =
         IF mapping(k) # None /\ opposites(direction) # mapping(k)
         THEN mapping(k)
         ELSE next_direction
    /\ direction' =
         IF mapping(k) # None /\ opposites(direction) # mapping(k)
         THEN mapping(k)
         ELSE direction
    /\ ev' = KeyEv(k, next_direction)
    /\ UNCHANGED <<grid, cap, positions, length, apple, exited,
                   placed_full, straight>>
HandleKeysFirstWins(k) ==
    /\ ~exited
    /\ next_direction' =
         IF /\ mapping(k) # None /\ opposites(direction) # mapping(k)
            /\ next_direction = None
         THEN mapping(k)
         ELSE next_direction
    /\ ev' = KeyEv(k, next_direction)
    /\ UNCHANGED <<grid, cap, positions, length, direction, apple, exited,
                   placed_full, straight>>
HandleKeysNoCheck(k) ==
    /\ ~exited
    /\ next_direction' = IF mapping(k) # None THEN mapping(k) ELSE next_direction
    /\ ev' = KeyEv(k, next_direction)
    /\ UNCHANGED <<grid, cap, positions, length, direction, apple, exited,
                   placed_full, straight>>
HandleKeys(k) ==
    /\ ~exited
    /\ next_direction' =
         IF mapping(k) # None /\ opposites(direction) # mapping(k)
         THEN mapping(k)
         ELSE next_direction
    /\ ev' = KeyEv(k, next_direction)
    /\ UNCHANGED <<grid, cap, positions, length, direction, apple, exited,
                   placed_full, straight>>

KeyDown == \E k \in Keys : HandleKeys(k)

\* main: an event that is neither QUIT nor KEYDOWN; handle_keys returns at once
OtherEvent ==
    /\ ~exited
    /\ UNCHANGED vars

\* main: the rest of one iteration of the loop, after the events:
\* update_direction, move, the apple check and the self-collision check.
\* quit tells whether an event of this iteration was QUIT or K_ESCAPE
\* (running = False): the iteration is still completed, then the loop ends.
LoopBody(quit) ==
    /\ ~exited
    /\ LET dir == UpdateDirection(direction, next_direction)
           moved == Move(positions, length, dir)
           ate == Eats(moved, apple)
           grown == IF ate THEN length + 1 ELSE length
           collided == SelfCollision(moved)
       IN  /\ (IF collided THEN SnakeReset.length ELSE grown) <= cap
           /\ \E a1 \in (IF ate THEN RandomizePosition(Range(moved)) ELSE {apple}) :
                IF collided
                THEN /\ positions' = SnakeReset.positions
                     /\ length' = SnakeReset.length
                     /\ direction' = SnakeReset.direction
                     /\ next_direction' = SnakeReset.next_direction
                     /\ apple' \in RandomizePosition(Range(SnakeReset.positions))
                     /\ placed_full' = (FreeCells(Range(SnakeReset.positions)) = {})
                     /\ straight' = 0
                ELSE /\ positions' = moved
                     /\ length' = grown
                     /\ direction' = dir
                     /\ next_direction' = None
                     /\ apple' = a1
                     /\ placed_full' =
                          IF ate THEN FreeCells(Range(moved)) = {} ELSE placed_full
                     /\ straight' =
                          IF straight \in 0..(MaxStraight - 1) /\ dir = direction
                          THEN straight + 1
                          ELSE -1
           /\ ev' = TickEv(direction, dir, moved, ate, grown, collided)
    /\ exited' = quit
    /\ UNCHANGED <<grid, cap>>

\* an iteration with running still True
Tick == LoopBody(FALSE)

\* the iteration in which QUIT or K_ESCAPE arrived
LastTick == LoopBody(TRUE)

Next ==
    \/ KeyDown /\ UNCHANGED tvars
    \/ OtherEvent
    \/ Tick /\ UNCHANGED tvars
    \/ LastTick /\ UNCHANGED tvars

Spec == Init /\ [][Next]_vars

SpecWide == InitWide /\ [][Next]_vars

\* the 4 x 4 grid alone, followed up to length 5, the first length at which
\* the snake can bite itself there
InitBite == InitOn(<<4, 4>>, 5) /\ SnakeOff

SpecBite == InitBite /\ [][Next]_vars

\* ------------------------------------------------------------------------
\* src/the_snake.py
\* ------------------------------------------------------------------------

\* GameObject.__init__: position, in pixels
TPosition == <<SCREEN_WIDTH \div 2, SCREEN_HEIGHT \div 2>>

\* Apple.randomize_position: the positions the two randint() calls can give
TRandomizePosition ==
    {<<x * GRID_SIZE, y * GRID_SIZE>> :
        x \in 0..(GRID_WIDTH - 1), y \in 0..(GRID_HEIGHT - 1)}

\* Snake.update_direction: the direction in force after it
TUpdateDirection(dir, next) == IF next # None THEN next ELSE dir

\* Snake.move: the new head is inserted and the tail is always popped
TMove(pos, dir) ==
    LET new == <<PyMod(pos[1][1] + dir[1] * GRID_SIZE, SCREEN_WIDTH),
                 PyMod(pos[1][2] + dir[2] * GRID_SIZE, SCREEN_HEIGHT)>>
        ins == <<new>> \o pos
    IN  SubSeq(ins, 1, Len(ins) - 1)

\* a grow() that puts the popped tail in front of the head
TGrowAtHead(pos, last) == <<last>> \o pos

\* Snake.grow: the popped tail is appended again
TGrow(pos, last) == Append(pos, last)

\* main: snake.get_head_position() in snake.positions[1:]
TSelfCollision(pos) == \E i \in 2..Len(pos) : pos[i] = pos[1]

\* the record of the last tick of the_snake.py
TTickEv(moved, ate, collided) ==
    [kind |-> "tick", moved |-> moved, ate |-> ate, collided |-> collided]

\* main: snake = Snake(); apple = Apple(): the apple is any cell, also the
\* snake's
TInit ==
    /\ t_positions = <<TPosition>>
    /\ t_direction = RIGHT
    /\ t_next_direction = None
    /\ t_last = None
    /\ t_apple \in TRandomizePosition
    /\ t_pc = "loop"
    /\ t_ev = InitEv

\* main.py not started
MainOff(g, c) ==
    /\ grid = g
    /\ cap = c
    /\ positions = <<>>
    /\ length = 0
    /\ direction = RIGHT
    /\ next_direction = None
    /\ apple = <<0, 0>>
    /\ exited = TRUE
    /\ placed_full = FALSE
    /\ straight = -1
    /\ ev = InitEv

\* handle_keys: a KEYDOWN event with key k
THandleKeys(k) ==
    /\ t_pc = "loop"
    /\ t_next_direction' =
         IF k = "K_UP" /\ t_direction # DOWN THEN UP
         ELSE IF k = "K_DOWN" /\ t_direction # UP THEN DOWN
         ELSE IF k = "K_LEFT" /\ t_direction # RIGHT THEN LEFT
         ELSE IF k = "K_RIGHT" /\ t_direction # LEFT THEN RIGHT
         ELSE t_next_direction
    /\ UNCHANGED <<t_positions, t_direction, t_last, t_apple, t_pc, t_ev>>

TKeyDown == \E k \in Keys : THandleKeys(k)

\* handle_keys: an event that is neither QUIT nor KEYDOWN
TOtherEvent ==
    /\ t_pc = "loop"
    /\ UNCHANGED vars

\* handle_keys: QUIT: pygame.quit(); raise SystemExit
TQuit ==
    /\ t_pc = "loop"
    /\ t_pc' = "exited"
    /\ UNCHANGED <<t_positions, t_direction, t_next_direction, t_last,
                   t_apple, t_ev>>

\* main: the self-collision check that ends an iteration, with the body pos,
\* the apple a, the direction dir and the popped tail last of that iteration
TFinish(pos, a, dir, last, ate) ==
    /\ (IF TSelfCollision(pos) THEN 1 ELSE Len(pos)) <= cap
    /\ IF TSelfCollision(pos)
       THEN /\ t_positions' = <<TPosition>>
            /\ t_direction' = RIGHT
            /\ t_last' = None
            /\ t_apple' \in TRandomizePosition
       ELSE /\ t_positions' = pos
            /\ t_direction' = dir
            /\ t_last' = last
            /\ t_apple' = a
    /\ t_next_direction' = None
    /\ t_pc' = "loop"
    /\ t_ev' = TTickEv(pos, ate, TSelfCollision(pos))

\* main: one iteration after handle_keys: update_direction, move, the apple
\* check with grow() and the first randomize_position(); when that position
\* is on the snake the iteration is inside the while loop (t_pc = "reroll")
TTick ==
    /\ t_pc = "loop"
    /\ LET dir == TUpdateDirection(t_direction, t_next_direction)
           last == t_positions[Len(t_positions)]
           moved == TMove(t_positions, dir)
       IN  IF moved[1] = t_apple
           THEN \E a \in TRandomizePosition :
                  IF a \in Range(TGrow(moved, last))
                  THEN /\ (IF TSelfCollision(TGrow(moved, last))
                            THEN 1 ELSE Len(moved) + 1) <= cap
                       /\ t_positions' = TGrow(moved, last)
                       /\ t_direction' = dir
                       /\ t_next_direction' = None
                       /\ t_last' = last
                       /\ t_apple' = a
                       /\ t_pc' = "reroll"
                       /\ t_ev' = [kind |-> "reroll"]
                  ELSE TFinish(TGrow(moved, last), a, dir, last, TRUE)
           ELSE TFinish(moved, t_apple, dir, last, FALSE)

\* main: one turn of while apple.position in snake.positions
TReroll ==
    /\ t_pc = "reroll"
    /\ \E a \in TRandomizePosition :
         IF a \in Range(t_positions)
         THEN /\ t_apple' = a
              /\ UNCHANGED <<t_positions, t_direction, t_next_direction,
                             t_last, t_pc, t_ev>>
         ELSE TFinish(t_positions, a, t_direction, t_last, TRUE)

\* the grids of the_snake.py: SCREEN_WIDTH // 2 is a multiple of GRID_SIZE
\* only for an even GRID_WIDTH, as with 640 x 480 and 20
InitSnake ==
    /\ MainOff(<<2, 2>>, MaxLength) \/ MainOff(<<4, 4>>, MaxLengthWide)
    /\ TInit

NextSnake ==
    \/ TKeyDown /\ UNCHANGED <<grid, cap, mvars>>
    \/ TOtherEvent
    \/ TQuit /\ UNCHANGED <<grid, cap, mvars>>
    \/ TTick /\ UNCHANGED <<grid, cap, mvars>>
    \/ TReroll /\ UNCHANGED <<grid, cap, mvars>>

SpecSnake == InitSnake /\ [][NextSnake]_vars

\* ------------------------------------------------------------------------
\* src/main.py and src/the_snake.py side by side
\* ------------------------------------------------------------------------

\* a pixel position of the_snake.py as a cell, and a cell as a pixel position
Cell(p) == <<p[1] \div GRID_SIZE, p[2] \div GRID_SIZE>>

Pixel(c) == <<c[1] * GRID_SIZE, c[2] * GRID_SIZE>>

Cells(pos) == [i \in 1..Len(pos) |-> Cell(pos[i])]

\* both games started on the same grid, the two apples on the same cell, off
\* the two snakes
InitPair ==
    /\ InitOn(<<2, 2>>, MaxLength) \/ InitOn(<<4, 2>>, MaxLengthWide)
    /\ TInit
    /\ t_apple = Pixel(apple)
    /\ apple \notin Range(positions) \cup Range(Cells(t_positions))

\* the same KEYDOWN event in both games
PairKeyDown == \E k \in Keys : HandleKeys(k) /\ THandleKeys(k)

\* the same other event in both games
PairOtherEvent == OtherEvent /\ TOtherEvent

\* one iteration of both loops. When both games placed their apple in it,
\* the two apples are on the same cell, off the two snakes; such an
\* iteration of the_snake.py has left its while loop.
PairTick ==
    /\ Tick
    /\ TTick
    /\ t_pc' = "loop"
    /\ ((ev'.ate \/ ev'.collided) /\ (t_ev'.ate \/ t_ev'.collided)) =>
          /\ t_apple' = Pixel(apple')
          /\ apple' \notin Range(positions') \cup Range(Cells(t_positions'))

NextPair ==
    \/ PairKeyDown
    \/ PairOtherEvent
    \/ PairTick

SpecPair == InitPair /\ [][NextPair]_vars

\* ------------------------------------------------------------------------
\* Properties
\* ------------------------------------------------------------------------

\* the cells of the grid, the center cell and the opposite of a direction,
\* stated apart from the program's own tables
InGrid(c) ==
    /\ c[1] >= 0 /\ c[1] < GRID_WIDTH
    /\ c[2] >= 0 /\ c[2] < GRID_HEIGHT
Center == <<GRID_WIDTH \div 2, GRID_HEIGHT \div 2>>
Opposite(d) == <<0 - d[1], 0 - d[2]>>

\* the head of the moved body m is on another segment of m
HeadHitsBody(m) == \E i \in 2..Len(m) : m[i] = m[1]

\* the moved body m covers the whole grid
CoversGrid(m) ==
    \A x \in 0..(GRID_WIDTH - 1) : \A y \in 0..(GRID_HEIGHT - 1) :
        \E i \in 1..Len(m) : m[i] = <<x, y>>

\* the cell one step from h in direction d, and the cell one step back
HeadAfter(h, d) == <<(h[1] + d[1]) % GRID_WIDTH, (h[2] + d[2]) % GRID_HEIGHT>>
HeadBefore(h, d) == <<(h[1] - d[1]) % GRID_WIDTH, (h[2] - d[2]) % GRID_HEIGHT>>

\* the direction the next tick moves in
DirectionInForce == IF next_direction # None THEN next_direction ELSE direction

\* a step of the main loop that is a tick: only a tick moves the body
TickStep == ev'.kind = "tick" /\ positions' # positions

\* C1: after construction and after every tick the food is on no cell of
\* the snake's body, unless the body covered the whole grid when the food
\* was last placed (then the food is the fallback cell).
C1_FoodOffBody ==
    ~placed_full => \A i \in 1..Len(positions) : positions[i] # apple

\* C1 witness: a tick ate the food with a body of two or more segments and
\* free cells left, and the new food is off the body.
C1_Witness ==
    /\ ev.kind = "tick" /\ ev.ate /\ ~HeadHitsBody(ev.moved)
    /\ Len(positions) >= 2
    /\ ~CoversGrid(positions)
    /\ \A i \in 1..Len(positions) : positions[i] # apple

\* the excepted case of C1 happens: food placed on a full grid lies on the body
C1_FullGridReached ==
    placed_full /\ \E i \in 1..Len(positions) : positions[i] = apple

\* C2: when the head produced by a tick's move is on another segment of the
\* moved body, the tick ends with the snake in its initial state: one segment
\* at the center cell, length 1, direction RIGHT, no pending direction.
C2_CollisionResets ==
    (ev.kind = "tick" /\ HeadHitsBody(ev.moved)) =>
        /\ positions = <<Center>>
        /\ length = 1
        /\ direction = RIGHT
        /\ next_direction = None

\* C2 witness: a tick whose moved head hit the body while the snake was
\* heading another way than RIGHT, and the snake is back in its initial state.
C2_Witness ==
    /\ ev.kind = "tick" /\ HeadHitsBody(ev.moved)
    /\ Len(ev.moved) >= 3
    /\ ev.dir # RIGHT
    /\ positions = <<Center>> /\ length = 1 /\ direction = RIGHT

\* C3 as stated: a request d followed by the apply at the start of the next
\* tick leaves the current direction c unchanged if and only if d is the
\* exact opposite of c.
C3_UnchangedIffOpposite ==
    [][(ev.kind = "key" /\ mapping(ev.key) # None /\ TickStep) =>
         ((ev'.dir = direction) <=> (mapping(ev.key) = Opposite(direction)))]_vars

\* C3 amended: a request d of the exact opposite of the current direction c
\* is discarded (the pending direction stays as it was); any other request
\* is applied by the next tick, which makes the current direction d; so with
\* nothing pending before the request the current direction is unchanged if
\* and only if d is the opposite of c or d is c itself.
C3_RequestThenApply ==
    [][(ev.kind = "key" /\ mapping(ev.key) # None /\ TickStep) =>
         LET d == mapping(ev.key)
             c == direction
         IN  /\ (d = Opposite(c)) => (next_direction = ev.before)
             /\ (d # Opposite(c)) => (ev'.dir = d)
             /\ (ev.before = None) =>
                  ((ev'.dir = c) <=> (d = Opposite(c) \/ d = c))]_vars

\* C3 witness: a tick has applied a request and turned the snake.
C3_Witness ==
    /\ ev.kind = "tick" /\ ~HeadHitsBody(ev.moved)
    /\ ev.dir # ev.prev
    /\ direction = ev.dir
    /\ next_direction = None

\* C4: the pending direction is never the exact opposite of the current
\* direction, and a tick that does not reset the snake never turns the
\* current direction into its exact opposite.
C4_NoReversal ==
    /\ [](next_direction # None => next_direction # Opposite(direction))
    /\ [][(TickStep /\ ~HeadHitsBody(ev'.moved)) =>
            direction' # Opposite(direction)]_vars

\* C4 witness: the opposite of the current direction was requested while
\* another request was pending, and the pending one is still there.
C4_Witness ==
    /\ ev.kind = "key"
    /\ mapping(ev.key) = Opposite(direction)
    /\ next_direction # None
    /\ next_direction = ev.before

\* C5: the body never has more segments than length.
C5_BodyWithinLength == Len(positions) <= length

\* C5 witness: a tick has eaten with a snake of length two or more, and the
\* body is one segment short of the new length.
C5_Witness ==
    /\ ev.kind = "tick" /\ ev.ate /\ ~HeadHitsBody(ev.moved)
    /\ length >= 3
    /\ Len(positions) = length - 1

\* C6: a tick that neither eats nor resets ends with as many segments as
\* length, so in a stretch of ticks without food and without reset the body
\* has reached length after the first tick and keeps it on every later one;
\* the events between ticks change neither.
C6_BodyReachesLength ==
    /\ [](ev.kind = "tick" /\ ~ev.ate /\ ~HeadHitsBody(ev.moved)
            => Len(positions) = length)
    /\ [][~TickStep => (Len(positions') = Len(positions) /\ length' = length)]_vars

\* C6 witness: a tick without food and without reset, after which a snake
\* that has eaten twice or more has all its segments.
C6_Witness ==
    /\ ev.kind = "tick" /\ ~ev.ate /\ ~HeadHitsBody(ev.moved)
    /\ length >= 3
    /\ Len(positions) = length

\* C7: in every tick the new head is ((x + dx) mod GRID_WIDTH,
\* (y + dy) mod GRID_HEIGHT) of the old head (x, y) and the direction
\* (dx, dy) in force, the remainder being non-negative: every body cell is
\* inside the grid, a head on an edge moving outward reappears on the
\* opposite edge, and on the 4 x 4 grid the head that starts at (2, 2)
\* heading RIGHT is (3, 2) after one tick and (1, 2) after three.
C7_WrappedHead ==
    /\ [](\A i \in 1..Len(positions) : InGrid(positions[i]))
    /\ [](grid = <<4, 4>> =>
            /\ (straight = 1 => positions[1] = <<3, 2>>)
            /\ (straight = 3 => positions[1] = <<1, 2>>))
    /\ [][TickStep =>
            LET h == positions[1]
                d == ev'.dir
                n == ev'.moved[1]
            IN  /\ d = (IF next_direction # None THEN next_direction ELSE direction)
                /\ n = <<(h[1] + d[1]) % GRID_WIDTH, (h[2] + d[2]) % GRID_HEIGHT>>
                /\ InGrid(n)
                /\ ~HeadHitsBody(ev'.moved) => positions'[1] = n
                /\ (h[1] = GRID_WIDTH - 1 /\ d = RIGHT) => n = <<0, h[2]>>
                /\ (h[1] = 0 /\ d = LEFT) => n = <<GRID_WIDTH - 1, h[2]>>
                /\ (h[2] = GRID_HEIGHT - 1 /\ d = DOWN) => n = <<h[1], 0>>
                /\ (h[2] = 0 /\ d = UP) => n = <<h[1], GRID_HEIGHT - 1>>]_vars

\* C7 witness: on the 4 x 4 grid, three ticks straight on from the start,
\* the head has left by the right edge and is at (1, 2).
C7_Witness ==
    /\ grid = <<4, 4>>
    /\ straight = 3
    /\ ev.kind = "tick" /\ ev.dir = RIGHT
    /\ positions[1] = <<1, 2>>

\* C7: the head leaves by the upper edge of the 4 x 4 grid
C7_UpperEdgeReached ==
    /\ grid = <<4, 4>>
    /\ ev.kind = "tick" /\ ev.dir = UP /\ ~HeadHitsBody(ev.moved)
    /\ positions[1][2] = 3

\* C8 as stated: from a snake of length 1 with the food on the cell its head
\* enters next, one tick gives length 2, the body [newhead, oldhead] and the
\* food on a cell that is neither of the two.
C8_BodyIsNewAndOldHead ==
    [][(TickStep /\ length = 1 /\ Len(positions) = 1
          /\ apple = HeadAfter(positions[1], DirectionInForce)) =>
         LET oldhead == positions[1]
             newhead == HeadAfter(positions[1], DirectionInForce)
         IN  /\ length' = 2
             /\ positions' = <<newhead, oldhead>>
             /\ apple' # newhead /\ apple' # oldhead]_vars

\* C8 amended: from a snake of length 1 with the food on the cell its head
\* enters next, one tick gives length 2 and the body [newhead] alone (the
\* move drops the old head before length grows), and the food is on a cell
\* of the grid other than newhead, which can be oldhead.
C8_EatAtLengthOne ==
    [][(TickStep /\ length = 1 /\ Len(positions) = 1
          /\ apple = HeadAfter(positions[1], DirectionInForce)) =>
         LET newhead == HeadAfter(positions[1], DirectionInForce)
         IN  /\ length' = 2
             /\ positions' = <<newhead>>
             /\ apple' # newhead
             /\ InGrid(apple')]_vars

\* C8 witness: a snake of length 1 has just eaten: length is 2, the body is
\* the new head alone, and the new food is on the cell the head came from.
C8_Witness ==
    /\ ev.kind = "tick" /\ ev.ate /\ ~HeadHitsBody(ev.moved)
    /\ length = 2
    /\ positions = <<ev.moved[1]>>
    /\ apple = HeadBefore(positions[1], ev.dir)

\* C9: an accepted request overwrites the pending direction whatever it was
\* and a discarded one leaves it; the tick applies the pending direction,
\* that is the last accepted request, and clears it; so no pending direction
\* remains after a tick and a tick with no request since the tick before
\* keeps the current direction.
C9_LastRequestWins ==
    /\ [](ev.kind = "tick" => next_direction = None)
    /\ [](ev.kind = "key" =>
            IF mapping(ev.key) # None /\ mapping(ev.key) # Opposite(direction)
            THEN next_direction = mapping(ev.key)
            ELSE next_direction = ev.before)
    /\ [][TickStep =>
            /\ ev'.dir = DirectionInForce
            /\ ~HeadHitsBody(ev'.moved) => direction' = DirectionInForce
            /\ ev.kind = "tick" => ev'.dir = direction]_vars

\* C9 witness: a second request before the tick has replaced another pending
\* direction.
C9_Witness ==
    /\ ev.kind = "key"
    /\ ev.before # None
    /\ next_direction # ev.before
    /\ next_direction = mapping(ev.key)

\* C10: a tick that eats while the moved body covers the whole grid (and has
\* not bitten itself) puts the food on (0, 0) and leaves the body, the
\* directions and the incremented length as they were; and while the food
\* placed on a full grid is in place the next tick is enabled, unless the
\* player has quit.
C10_FullGridFallback ==
    /\ [][(TickStep /\ apple = ev'.moved[1] /\ CoversGrid(ev'.moved)
              /\ ~HeadHitsBody(ev'.moved)) =>
            /\ apple' = <<0, 0>>
            /\ positions' = ev'.moved
            /\ length' = length + 1
            /\ direction' = DirectionInForce
            /\ next_direction' = None]_vars
    /\ []((placed_full /\ ~exited) => ENABLED Tick)

\* C10 witness: the snake fills the grid, has just eaten, and the food is on
\* (0, 0) under its body.
C10_Witness ==
    /\ placed_full /\ ~exited
    /\ ev.kind = "tick" /\ ev.ate
    /\ CoversGrid(positions)
    /\ Len(positions) = GRID_WIDTH * GRID_HEIGHT
    /\ apple = <<0, 0>>

\* C13: when the food was placed with a free cell left, a tick whose moved
\* head lands on the food does not bite the body: eating and resetting do
\* not happen in the same tick.
C13_EatingNeverResets ==
    [][(TickStep /\ ~placed_full /\ apple = ev'.moved[1]) =>
         (~HeadHitsBody(ev'.moved) /\ length' = length + 1)]_vars

\* C13 witness: a snake of three or more segments has eaten food placed with
\* free cells left, and has not been reset.
C13_Witness ==
    /\ ev.kind = "tick" /\ ev.ate
    /\ ev.moved[1] = positions[1]
    /\ Len(positions) >= 3
    /\ length = Len(positions) + 1

\* C13: with the food placed on a full grid, a tick eats and resets at once
C13_EatAndResetReached ==
    ev.kind = "tick" /\ ev.ate /\ HeadHitsBody(ev.moved)

\* C14: length changes only inside a tick: the apple check adds exactly 1
\* exactly when the moved head is on the food, the reset makes it 1 exactly
\* when the moved head is on the body, and otherwise the tick leaves it;
\* the events between ticks never change it.
C14_LengthChanges ==
    [][IF TickStep
       THEN /\ (ev'.grown = length + 1) <=> (apple = ev'.moved[1])
            /\ (ev'.grown = length) <=> (apple # ev'.moved[1])
            /\ HeadHitsBody(ev'.moved) => length' = 1
            /\ ~HeadHitsBody(ev'.moved) => length' = ev'.grown
       ELSE length' = length]_vars

\* C14 witness: a tick has reset a snake whose length had grown to three or
\* more, and length is 1 again.
C14_Witness ==
    /\ ev.kind = "tick" /\ HeadHitsBody(ev.moved)
    /\ ev.grown >= 3
    /\ length = 1

\* C15: the segments of the body are pairwise distinct in every state
\* between ticks.
C15_NoDuplicateCells ==
    \A i \in 1..Len(positions) : \A j \in 1..Len(positions) :
        positions[i] = positions[j] => i = j

\* C15 witness: a tick has put the head on the cell of the tail, which is
\* not a reset only when the tail was dropped in that tick; here it was not,
\* and the reset has removed the duplicate.
C15_Witness ==
    /\ ev.kind = "tick"
    /\ Len(ev.moved) >= 3
    /\ ev.moved[1] = ev.moved[Len(ev.moved)]
    /\ Len(positions) = 1

\* C16: a step between ticks (a direction request or another event) leaves
\* the body, length, the current direction and the food as they are, a
\* discarded request leaves the pending direction as well, and the current
\* direction only changes in a tick.
C16_RequestFrame ==
    /\ [][ev'.kind = "key" =>
            /\ positions' = positions /\ length' = length
            /\ direction' = direction /\ apple' = apple
            /\ grid' = grid /\ exited' = exited
            /\ (mapping(ev'.key) = None \/ mapping(ev'.key) = Opposite(direction))
                 => next_direction' = ev'.before]_vars
    /\ [][direction' # direction => TickStep]_vars

\* C16 witness: the opposite of the current direction has just been
\* requested with nothing pending, and nothing is pending.
C16_Witness ==
    /\ ev.kind = "key"
    /\ mapping(ev.key) = Opposite(direction)
    /\ ev.before = None
    /\ next_direction = None
    /\ Len(positions) >= 2

\* C18: length minus the number of body segments is 0 or 1 in every state
\* between ticks.
C18_AtMostOneShort ==
    length - Len(positions) \in {0, 1}

\* C18 witness: the first two ticks have both eaten: length is 3 and the
\* body has two segments.
C18_Witness ==
    /\ ev.kind = "tick" /\ ev.ate
    /\ straight = 2
    /\ length = 3
    /\ Len(positions) = 2

\* C17: on a grid of width and height 4 or more, a tick that starts with
\* length 4 or less never has the moved head on the body, so it never resets
\* the snake.
C17_NoBiteUpToFour ==
    [][(TickStep /\ GRID_WIDTH >= 4 /\ GRID_HEIGHT >= 4 /\ length <= 4) =>
         (~HeadHitsBody(ev'.moved) /\ positions' = ev'.moved)]_vars

\* C17 witness: on the 4 x 4 grid a tick that started with length 5 has put
\* the head on the fifth segment, and the snake has been reset.
C17_Witness ==
    /\ grid = <<4, 4>>
    /\ ev.kind = "tick" /\ HeadHitsBody(ev.moved)
    /\ Len(ev.moved) = 5
    /\ ev.grown = 5
    /\ positions = <<Center>> /\ length = 1


\* C11: in the_snake.py the loop that re-rolls the apple after a meal always
\* ends: whenever an iteration is inside that loop, randomize_position can
\* give a position that is off the snake, also when the grown snake is as
\* long as it can get.
C11_RerollHasFreeCell ==
    t_pc = "reroll" => \E c \in TRandomizePosition : c \notin Range(t_positions)

\* C12: in the_snake.py, at the end of every tick that resets the snake, the
\* apple is not on the snake's single center segment.
C12_AppleOffResetBody ==
    (t_ev.kind = "tick" /\ t_ev.collided) => t_apple # t_positions[1]



\* C19: main.py and the_snake.py side by side, with the same key events and
\* the same apple cell after every placement, off both snakes: the two heads
\* and the two directions are equal, the two games reset in the same ticks,
\* and the body of the_snake.py is the body of main.py, followed by one more
\* tail cell exactly when main.py's length exceeds its number of segments.
C19_SameGame ==
    /\ Cell(t_positions[1]) = positions[1]
    /\ t_direction = direction
    /\ ev.kind = "tick" => (t_ev.kind = "tick" /\ t_ev.collided = ev.collided)
    /\ IF length > Len(positions)
       THEN /\ Len(t_positions) = Len(positions) + 1
            /\ SubSeq(Cells(t_positions), 1, Len(positions)) = positions
       ELSE Cells(t_positions) = positions


\* an eating tick of both games at length 2 or more: main.py's body is one
\* short of its length and the_snake.py's body has the tail cell more
C19_Witness ==
    /\ ev.kind = "tick" /\ ev.ate /\ ~ev.collided
    /\ t_ev.kind = "tick" /\ t_ev.ate
    /\ Len(positions) >= 2
    /\ length = Len(positions) + 1
    /\ Len(t_positions) = length

\* a tick in which both games reset
C19_BothReset ==
    /\ ev.kind = "tick" /\ ev.collided
    /\ t_ev.kind = "tick" /\ t_ev.collided
    /\ t_positions = <<TPosition>>
    /\ positions = <<Start>>


============================================================================
